---- MODULE Spec2Model ----
(***************************************************************************)
(* DukiTinyOS kernel: ready lists and priority bitmap, scheduler lock,     *)
(* delay list, tick handler, task suspend / wake-up / delete, the timer    *)
(* module.  Lists are the kernel's intrusive circular doubly-linked lists  *)
(* with an embedded head node, modelled pointer by pointer, so that an     *)
(* operation applied to a node that is not on the list it names has the    *)
(* effect it has in the C code.                                            *)
(***************************************************************************)
EXTENDS Integers, Sequences, FiniteSets, TLC

----------------------------------------------------------------------------
(* Sizes of the model *)

TINYOS_PRIO_COUNT == 4
TINYOS_SLICE_MAX == 2
TINYOS_TIMERTASK_PRIO == 0
TICKS_PER_SEC == 1
MaxTicks == 5
MaxIdle == 1
MaxLock == 2
MaxDelay == 2
MaxSuspend == 2
MaxCalls == 4
MaxTimerCalls == 4
MaxTimerTicks == 4
MaxTimerDelay == 2
MaxTimerPeriod == 1
MaxLiveCalls == 5
MaxCbTicks == 2
MaxCbCalls == 2
MaxRaceCalls == 3

SchedLockMax == 255

(* A uint32_t is written in two's complement: -1 is 0xFFFFFFFF, the value a
   decrement of 0 leaves.  An unsigned word is greater than 0 iff it is not 0. *)
Inc32(v) == v + 1
Dec32(v) == v - 1
Pos32(v) == v # 0

AppTasks == {"t1", "t2"}
IdleTask == "idle"
TimerTask == "tTimeTask"
Tasks == AppTasks \cup {IdleTask, TimerTask}
Wild == "wild"
NoTask == "none"
NullNode == <<"null", "null">>

Prios == 0 .. (TINYOS_PRIO_COUNT - 1)
(* the priorities the application gives its tasks: below the timer task, above idle *)
AppPrios == (TINYOS_TIMERTASK_PRIO + 1) .. (TINYOS_PRIO_COUNT - 2)

Timers == {"x1", "x2"}
AppSem == "S"
TickSem == "tTimerTickSem"
ProtectSem == "tTimerProtectSem"
Sems == {AppSem, TickSem, ProtectSem}
NoEvent == "noEvent"

(* task state bits *)
DELAYED == "DELAYED"
SUSPEND == "SUSPEND"
WAIT == "WAIT"

(* result codes *)
tErrorNoError == "NoError"
tErrorTimeOut == "TimeOut"
tErrorResourceFull == "ResourceFull"

(* timer states and configuration *)
tTimerCreated == "Created"
tTimerStarted == "Started"
tTimerRunning == "Running"
tTimerStopped == "Stopped"
tTimerDestroyed == "Destroyed"
TimerNone == "Uninit"
TIMER_CONFIG_TYPE_HARD == "HARD"
TIMER_CONFIG_TYPE_SOFT == "SOFT"

----------------------------------------------------------------------------
(* Nodes and lists.  A list is named by its head node. *)

RdyList(p) == <<"rdy", p>>
tTaskDelayedList == <<"sys", "delayed">>
WaitList(e) == <<"ev", e>>
tTimerHardList == <<"tmr", "hard">>
tTimerSoftList == <<"tmr", "soft">>

LinkNode(t) == <<"link", t>>
DelayNode(t) == <<"delay", t>>
TimerNode(x) == <<"timer", x>>

Lists ==
  {RdyList(p) : p \in Prios} \cup {tTaskDelayedList, tTimerHardList, tTimerSoftList}
    \cup {WaitList(e) : e \in Sems}

ItemNodes ==
  {LinkNode(t) : t \in Tasks} \cup {DelayNode(t) : t \in Tasks}
    \cup {TimerNode(x) : x \in Timers}

Nodes == Lists \cup ItemNodes

VARIABLES
  nextNode, preNode, nodeCount,   \* tNode.nextNode, tNode.preNode, tList.nodeCount
  taskPrioBitMap, curTask, nextTask, schedLockCounter,
  tcb,                            \* the tTask control blocks
  tickCount, enableCpuUsageState, idleCount, idleMaxCount, cpuUsage,
  sem,                            \* tSem.count, tSem.maxCount
  timer,                          \* the tTimer objects
  idlePc, sysTickOn,              \* position of taskIdle, SysTick running
  timerPc,                        \* position of tTimerSoftTask
  cont,                           \* an application task's unfinished kernel call
  life,                           \* which task objects the application has created or deleted
  fault,                          \* "none", or how the machine stopped
  calls,                          \* number of kernel calls the application tasks have made
  op                              \* the timer call the last step made, if it was one

vars ==
  <<nextNode, preNode, nodeCount, taskPrioBitMap, curTask, nextTask, schedLockCounter,
    tcb, tickCount, enableCpuUsageState, idleCount, idleMaxCount, cpuUsage, sem, timer,
    idlePc, sysTickOn, timerPc, cont, life, fault, calls, op>>

(* The whole kernel state as one record, so that a C function is an operator
   from state to state and a handler is the composition of its calls. *)
K ==
  [nextNode |-> nextNode, preNode |-> preNode, nodeCount |-> nodeCount,
   taskPrioBitMap |-> taskPrioBitMap, curTask |-> curTask, nextTask |-> nextTask,
   schedLockCounter |-> schedLockCounter, tcb |-> tcb, tickCount |-> tickCount,
   enableCpuUsageState |-> enableCpuUsageState, idleCount |-> idleCount,
   idleMaxCount |-> idleMaxCount, cpuUsage |-> cpuUsage, sem |-> sem, timer |-> timer,
   idlePc |-> idlePc, sysTickOn |-> sysTickOn, timerPc |-> timerPc, cont |-> cont,
   life |-> life, fault |-> fault, calls |-> calls, op |-> <<"none", "none">>,
   pendSV |-> FALSE, cb |-> <<"none", "none">>]

Becomes(s) ==
  /\ nextNode' = s.nextNode /\ preNode' = s.preNode /\ nodeCount' = s.nodeCount
  /\ taskPrioBitMap' = s.taskPrioBitMap /\ curTask' = s.curTask /\ nextTask' = s.nextTask
  /\ schedLockCounter' = s.schedLockCounter /\ tcb' = s.tcb /\ tickCount' = s.tickCount
  /\ enableCpuUsageState' = s.enableCpuUsageState /\ idleCount' = s.idleCount
  /\ idleMaxCount' = s.idleMaxCount /\ cpuUsage' = s.cpuUsage /\ sem' = s.sem
  /\ timer' = s.timer /\ idlePc' = s.idlePc /\ sysTickOn' = s.sysTickOn
  /\ timerPc' = s.timerPc /\ cont' = s.cont /\ life' = s.life /\ fault' = s.fault
  /\ calls' = s.calls /\ op' = s.op

Is(s) ==
  /\ nextNode = s.nextNode /\ preNode = s.preNode /\ nodeCount = s.nodeCount
  /\ taskPrioBitMap = s.taskPrioBitMap /\ curTask = s.curTask /\ nextTask = s.nextTask
  /\ schedLockCounter = s.schedLockCounter /\ tcb = s.tcb /\ tickCount = s.tickCount
  /\ enableCpuUsageState = s.enableCpuUsageState /\ idleCount = s.idleCount
  /\ idleMaxCount = s.idleMaxCount /\ cpuUsage = s.cpuUsage /\ sem = s.sem
  /\ timer = s.timer /\ idlePc = s.idlePc /\ sysTickOn = s.sysTickOn
  /\ timerPc = s.timerPc /\ cont = s.cont /\ life = s.life /\ fault = s.fault
  /\ calls = s.calls /\ op = s.op

----------------------------------------------------------------------------
(* tLib: list and bitmap *)

tNodeInit(s, n) ==
  [s EXCEPT !.nextNode[n] = n, !.preNode[n] = n]

tListInit(s, l) ==
  [s EXCEPT !.nextNode[l] = l, !.preNode[l] = l, !.nodeCount[l] = 0]

tListCount(s, l) == s.nodeCount[l]

tListAddFirst(s, l, n) ==
  LET s1 == [s EXCEPT !.preNode[n] = s.preNode[s.nextNode[l]]]
      s2 == [s1 EXCEPT !.nextNode[n] = s1.nextNode[l]]
      s3 == [s2 EXCEPT !.preNode[s2.nextNode[l]] = n]
      s4 == [s3 EXCEPT !.nextNode[l] = n]
  IN [s4 EXCEPT !.nodeCount[l] = Inc32(@)]

tListAddLast(s, l, n) ==
  LET s1 == [s EXCEPT !.nextNode[n] = l]
      s2 == [s1 EXCEPT !.preNode[n] = s1.preNode[l]]
      s3 == [s2 EXCEPT !.nextNode[s2.preNode[l]] = n]
      s4 == [s3 EXCEPT !.preNode[l] = n]
  IN [s4 EXCEPT !.nodeCount[l] = Inc32(@)]

tListRemove(s, l, n) ==
  LET s1 == [s EXCEPT !.nextNode[s.preNode[n]] = s.nextNode[n]]
      s2 == [s1 EXCEPT !.preNode[s1.nextNode[n]] = s1.preNode[n]]
  IN [s2 EXCEPT !.nodeCount[l] = Dec32(@)]

tListRemoveFirst(s, l) ==
  IF s.nodeCount[l] = 0 THEN s
  ELSE LET n == s.nextNode[l]
           s1 == [s EXCEPT !.preNode[s.nextNode[n]] = l]
           s2 == [s1 EXCEPT !.nextNode[l] = s1.nextNode[n]]
       IN [s2 EXCEPT !.nodeCount[l] = Dec32(@)]

(* tListFirst: the first node, or no node when the list counts none *)
tListFirst(s, l) ==
  IF s.nodeCount[l] = 0 THEN NullNode ELSE s.nextNode[l]

tBitMapInit(s) == [s EXCEPT !.taskPrioBitMap = {}]
tBitMapSet(s, p) == [s EXCEPT !.taskPrioBitMap = @ \cup {p}]
tBitMapClear(s, p) == [s EXCEPT !.taskPrioBitMap = @ \ {p}]

Min(S) == CHOOSE x \in S : \A y \in S : x <= y

(* tBitMapGetFirstSet: the lowest set bit; the number of positions when none is set *)
tBitMapGetFirstSet(s) ==
  IF s.taskPrioBitMap = {} THEN 32 ELSE Min(s.taskPrioBitMap)

----------------------------------------------------------------------------
(* Scheduler core (main.c) *)

(* tNodeParent(node, tTask, linkNode): the task owning a link node; any
   other address (no node, a list head) is not a task *)
tNodeParentLink(n) ==
  IF \E t \in Tasks : n = LinkNode(t)
    THEN CHOOSE t \in Tasks : n = LinkNode(t)
    ELSE Wild

tNodeParentDelay(n) ==
  IF \E t \in Tasks : n = DelayNode(t)
    THEN CHOOSE t \in Tasks : n = DelayNode(t)
    ELSE Wild

tNodeParentTimer(n) ==
  IF \E x \in Timers : n = TimerNode(x)
    THEN CHOOSE x \in Timers : n = TimerNode(x)
    ELSE Wild

(* taskTable has TINYOS_PRIO_COUNT entries: an index outside it reads no list *)
tTaskHighestReady(s) ==
  LET highestPrio == tBitMapGetFirstSet(s)
  IN IF highestPrio \notin Prios THEN Wild
     ELSE tNodeParentLink(tListFirst(s, RdyList(highestPrio)))

(* tTaskSwitch pends the PendSV exception *)
tTaskSwitch(s) == [s EXCEPT !.pendSV = TRUE]

(* The PendSV handler runs as soon as no interrupt is active and interrupts
   are enabled: it makes nextTask the running task.  A nextTask that is no
   task leaves the machine in an undefined state. *)
PendSV_Handler(s) ==
  IF ~s.pendSV \/ s.fault # "none" THEN [s EXCEPT !.pendSV = FALSE]
  ELSE IF s.nextTask \in Tasks
    THEN [s EXCEPT !.curTask = s.nextTask, !.pendSV = FALSE]
    ELSE [s EXCEPT !.curTask = s.nextTask, !.pendSV = FALSE, !.fault = "undefined"]

tTaskSched(s) ==
  IF s.schedLockCounter > 0 THEN s
  ELSE LET tmpTask == tTaskHighestReady(s)
       IN IF tmpTask # s.curTask
            THEN tTaskSwitch([s EXCEPT !.nextTask = tmpTask])
            ELSE s

tTaskSchedDisable(s) ==
  LET s1 == IF s.schedLockCounter < SchedLockMax
              THEN [s EXCEPT !.schedLockCounter = @ + 1]
              ELSE s
  IN tBitMapInit(s1)

tTaskSchedEnable(s) ==
  IF s.schedLockCounter > 0
    THEN LET s1 == [s EXCEPT !.schedLockCounter = @ - 1]
         IN IF s1.schedLockCounter = 0 THEN tTaskSched(s1) ELSE s1
    ELSE s

tTaskSchedRdy(s, t) ==
  LET p == s.tcb[t].prio
  IN tBitMapSet(tListAddFirst(s, RdyList(p), LinkNode(t)), p)

tTaskSchedUnRdy(s, t) ==
  LET p == s.tcb[t].prio
      s1 == tListRemove(s, RdyList(p), LinkNode(t))
  IN IF tListCount(s1, RdyList(p)) = 0 THEN tBitMapClear(s1, p) ELSE s1

tTaskSchedRemove(s, t) ==
  LET p == s.tcb[t].prio
      s1 == tListRemove(s, RdyList(p), LinkNode(t))
  IN IF tListCount(s1, RdyList(p)) = 0 THEN tBitMapClear(s1, p) ELSE s1

tTimeTaskWait(s, t, ticks) ==
  LET s1 == [s EXCEPT !.tcb[t].delayTicks = ticks]
      s2 == tListAddLast(s1, tTaskDelayedList, DelayNode(t))
  IN [s2 EXCEPT !.tcb[t].state = @ \cup {DELAYED}]

tTimeTaskWakeUp(s, t) ==
  LET s1 == tListRemove(s, tTaskDelayedList, DelayNode(t))
  IN [s1 EXCEPT !.tcb[t].state = @ \ {DELAYED}]

tTimeTaskRemove(s, t) ==
  tListRemove(s, tTaskDelayedList, DelayNode(t))

----------------------------------------------------------------------------
(* Wait-event primitive and semaphore *)

tEventWait(s, e, t, state, timeout) ==
  LET s1 == [s EXCEPT !.tcb[t].state = @ \cup state,
                      !.tcb[t].waitEvent = e,
                      !.tcb[t].waitEventResult = tErrorNoError]
      s2 == tTaskSchedUnRdy(s1, t)
      s3 == tListAddLast(s2, WaitList(e), LinkNode(t))
  IN IF timeout > 0 THEN tTimeTaskWait(s3, t, timeout) ELSE s3

(* wakes the head of the wait list; the caller has checked it is not empty *)
tEventWakeUp(s, e, result) ==
  LET n == s.nextNode[WaitList(e)]
      t == tNodeParentLink(n)
      s1 == tListRemoveFirst(s, WaitList(e))
  IN IF t \notin Tasks THEN [s1 EXCEPT !.fault = "undefined"]
     ELSE LET s2 == [s1 EXCEPT !.tcb[t].waitEvent = NoEvent,
                               !.tcb[t].waitEventResult = result,
                               !.tcb[t].state = @ \ {WAIT}]
              s3 == IF DELAYED \in s2.tcb[t].state THEN tTimeTaskWakeUp(s2, t) ELSE s2
          IN tTaskSchedRdy(s3, t)

tEventRemoveTask(s, t, result) ==
  LET s1 == tListRemove(s, WaitList(s.tcb[t].waitEvent), LinkNode(t))
  IN [s1 EXCEPT !.tcb[t].waitEvent = NoEvent,
                !.tcb[t].waitEventResult = result,
                !.tcb[t].state = @ \ {WAIT}]

tEventWaitCount(s, e) == tListCount(s, WaitList(e))

tSemInit(s, m, startCount, maxCount) ==
  LET c == IF maxCount = 0 THEN startCount
           ELSE IF startCount > maxCount THEN maxCount ELSE startCount
  IN tListInit([s EXCEPT !.sem[m] = [count |-> c, maxCount |-> maxCount]], WaitList(m))

(* tSemWait up to the point where the caller either has the count or is
   queued; the caller resumes after the call when it is woken *)
tSemWait(s, m, waitTicks) ==
  IF s.sem[m].count > 0
    THEN [s EXCEPT !.sem[m].count = @ - 1,
                   !.tcb[s.curTask].waitEventResult = tErrorNoError]
    ELSE tTaskSched(tEventWait(s, m, s.curTask, {WAIT}, waitTicks))

tSemNotify(s, m) ==
  IF Pos32(tEventWaitCount(s, m))
    THEN tTaskSched(tEventWakeUp(s, m, tErrorNoError))
    ELSE IF s.sem[m].maxCount = 0 \/ s.sem[m].count < s.sem[m].maxCount
           THEN [s EXCEPT !.sem[m].count = @ + 1]
           ELSE s

----------------------------------------------------------------------------
(* tTimerStart, tTimerStop, tTimerDestroy.  A call on a soft timer takes
   tTimerProtectSem and may have to wait for it: cont records the rest of
   the call, which the task runs when it has been given the semaphore. *)

NoCont == <<"none", "none">>

tTimerStartInsert(s, x) ==
  tSemNotify(tListAddLast(s, tTimerSoftList, TimerNode(x)), ProtectSem)

(* tTimerStart statement by statement: the switch on timer->state, the
   reload of delayTicks, the write of tTimerStarted, and the insertion under
   the critical section or tTimerProtectSem *)
tTimerStartTest(s, x) == s.timer[x].state \in {tTimerCreated, tTimerStopped}

tTimerStartLoad(s, x) ==
  [s EXCEPT !.timer[x].delayTicks =
              IF s.timer[x].startDelayTicks # 0
                THEN s.timer[x].startDelayTicks
                ELSE s.timer[x].durationTicks]

tTimerStartMark(s, x) == [s EXCEPT !.timer[x].state = tTimerStarted]

tTimerStartLink(s, x) ==
  IF s.timer[x].config = TIMER_CONFIG_TYPE_HARD
    THEN tListAddFirst(s, tTimerHardList, TimerNode(x))
    ELSE IF s.sem[ProtectSem].count > 0
      THEN tTimerStartInsert(tSemWait(s, ProtectSem, 0), x)
      ELSE [tSemWait(s, ProtectSem, 0) EXCEPT !.cont[s.curTask] = <<"start", x>>]

tTimerStartAnyState(s, x) ==
  LET s1 == [s EXCEPT !.timer[x].delayTicks =
                        IF s.timer[x].startDelayTicks # 0
                          THEN s.timer[x].startDelayTicks
                          ELSE s.timer[x].durationTicks,
                      !.timer[x].state = tTimerStarted]
  IN IF s1.timer[x].config = TIMER_CONFIG_TYPE_HARD
       THEN tListAddFirst(s1, tTimerHardList, TimerNode(x))
       ELSE tListAddLast(s1, tTimerSoftList, TimerNode(x))

tTimerStart(s, x) ==
  IF tTimerStartTest(s, x)
    THEN tTimerStartLink(tTimerStartMark(tTimerStartLoad(s, x), x), x)
    ELSE s

tTimerStopRemove(s, x) ==
  tSemNotify(tListRemove(s, tTimerSoftList, TimerNode(x)), ProtectSem)

tTimerStop(s, x) ==
  IF s.timer[x].state \in {tTimerStarted, tTimerRunning}
    THEN IF s.timer[x].config = TIMER_CONFIG_TYPE_HARD
           THEN tListRemove(s, tTimerHardList, TimerNode(x))
           ELSE IF s.sem[ProtectSem].count > 0
             THEN tTimerStopRemove(tSemWait(s, ProtectSem, 0), x)
             ELSE [tSemWait(s, ProtectSem, 0) EXCEPT !.cont[s.curTask] = <<"stop", x>>]
    ELSE s

tTimerSetDestroyed(s, x) == [s EXCEPT !.timer[x].state = tTimerDestroyed]

tTimerDestroy(s, x) ==
  LET s1 == tTimerStop(s, x)
  IN IF s1.cont[s.curTask] = NoCont
       THEN tTimerSetDestroyed(s1, x)
       ELSE [s1 EXCEPT !.cont[s.curTask] = <<"destroy", x>>]

(* the rest of a call that had to wait for tTimerProtectSem *)
tTimerResume(s) ==
  LET c == s.cont[s.curTask]
      s1 == [s EXCEPT !.cont[s.curTask] = NoCont]
  IN IF c[1] = "start" THEN tTimerStartInsert(s1, c[2])
     ELSE IF c[1] = "stop" THEN tTimerStopRemove(s1, c[2])
     ELSE tTimerSetDestroyed(tTimerStopRemove(s1, c[2]), c[2])

----------------------------------------------------------------------------
(* Timer module (tTimer.c) *)

TimerList(s, x) ==
  IF s.timer[x].config = TIMER_CONFIG_TYPE_HARD THEN tTimerHardList ELSE tTimerSoftList

tTimerInit(s, x, delayTicks, durationTicks, config) ==
  LET s1 == tNodeInit(s, TimerNode(x))
  IN [s1 EXCEPT !.timer[x] =
        [startDelayTicks |-> delayTicks,
         durationTicks |-> durationTicks,
         delayTicks |-> IF delayTicks = 0 THEN durationTicks ELSE delayTicks,
         config |-> config,
         state |-> tTimerCreated,
         fired |-> 0]]

(* the callback of the model's timers counts its invocations and makes the
   call s.cb, if any, on a timer *)
timerFunc(s, x) ==
  LET s1 == [s EXCEPT !.timer[x].fired = @ + 1]
  IN IF s.cb[1] = "start" THEN tTimerStart(s1, s.cb[2])
     ELSE IF s.cb[1] = "stop" THEN tTimerStop(s1, s.cb[2])
     ELSE s1

(* the callback has not returned: the soft-timer task waits inside it *)
InCallback(s) == s.cont[TimerTask] # NoCont

(* the loop body of tTimerCallFuncList after the callback has returned *)
tTimerCallFuncAfter(s, l, x) ==
  LET s4 == [s EXCEPT !.timer[x].state = tTimerStarted]
  IN IF s4.timer[x].durationTicks > 0
       THEN [s4 EXCEPT !.timer[x].delayTicks = s4.timer[x].durationTicks]
       ELSE [tListRemove(s4, l, TimerNode(x)) EXCEPT !.timer[x].state = tTimerStopped]

(* one iteration of the loop of tTimerCallFuncList, at a timer's node *)
tTimerCallFuncNode(s, l, x) ==
  LET s1 == IF s.timer[x].delayTicks = 0 THEN s
            ELSE [s EXCEPT !.timer[x].delayTicks = @ - 1]
  IN IF s1.timer[x].delayTicks # 0 THEN s1
     ELSE LET s2 == [s1 EXCEPT !.timer[x].state = tTimerRunning]
              s3 == timerFunc(s2, x)
          IN IF InCallback(s3) THEN s3 ELSE tTimerCallFuncAfter(s3, l, x)

WalkFuel == Cardinality(Nodes)

RECURSIVE tTimerCallFuncWalk(_, _, _, _)
tTimerCallFuncWalk(s, l, node, fuel) ==
  IF node = l THEN s
  ELSE IF fuel = 0 THEN [s EXCEPT !.fault = "hang"]
  ELSE LET x == tNodeParentTimer(node)
       IN IF x \notin Timers THEN [s EXCEPT !.fault = "undefined"]
          ELSE LET s1 == tTimerCallFuncNode(s, l, x)
               IN IF InCallback(s1) THEN s1
                  ELSE tTimerCallFuncWalk(s1, l, s1.nextNode[node], fuel - 1)

tTimerCallFuncList(s, l) ==
  tTimerCallFuncWalk(s, l, s.nextNode[l], WalkFuel)

tTimerModuleTickNotify(s) ==
  tSemNotify(tTimerCallFuncList(s, tTimerHardList), TickSem)

tTimerModuleInit(s) ==
  LET s1 == tListInit(tListInit(s, tTimerHardList), tTimerSoftList)
  IN tSemInit(tSemInit(s1, ProtectSem, 1, 1), TickSem, 0, 0)

----------------------------------------------------------------------------
(* Tick handler and CPU usage (main.c) *)

(* The quotient idleCount / idleMaxCount.  A zero divisor is undefined in C:
   div0 is what the division then does: it traps, or it yields 0 as the
   Cortex-M3 does with the divide-by-zero trap disabled. *)
Div0Outcomes == {"trap", "zero"}

checkCpuUsageResets(s, div0) ==
  [s EXCEPT !.enableCpuUsageState = 1, !.tickCount = 0]

checkCpuUsageKeepsLock(s, div0) ==
  IF s.enableCpuUsageState = 0
    THEN [s EXCEPT !.enableCpuUsageState = 1, !.tickCount = 0]
  ELSE IF s.tickCount = TICKS_PER_SEC
    THEN [s EXCEPT !.idleMaxCount = s.idleCount, !.idleCount = 0]
  ELSE s

checkCpuUsage(s, div0) ==
  IF s.enableCpuUsageState = 0
    THEN [s EXCEPT !.enableCpuUsageState = 1, !.tickCount = 0]
  ELSE IF s.tickCount = TICKS_PER_SEC
    THEN tTaskSchedEnable([s EXCEPT !.idleMaxCount = s.idleCount, !.idleCount = 0])
  ELSE IF s.tickCount % TICKS_PER_SEC = 0
    THEN IF s.idleMaxCount = 0
           THEN IF div0 = "trap"
                  THEN [s EXCEPT !.fault = "undefined"]
                  ELSE [s EXCEPT !.cpuUsage = (1 - 0) * 100,
                                 !.idleCount = 0]
           ELSE [s EXCEPT !.cpuUsage = (1 - (s.idleCount \div s.idleMaxCount)) * 100,
                          !.idleCount = 0]
  ELSE s

(* one iteration of the loop over tTaskDelayedList, at a task's delay node *)
tTickDelayNode(s, t) ==
  LET s1 == [s EXCEPT !.tcb[t].delayTicks = Dec32(@)]
  IN IF s1.tcb[t].delayTicks # 0 THEN s1
     ELSE LET s2 == IF s1.tcb[t].waitEvent # NoEvent
                      THEN tEventRemoveTask(s1, t, tErrorTimeOut)
                      ELSE s1
          IN tTaskSchedRdy(tTimeTaskWakeUp(s2, t), t)

RECURSIVE tTickDelayWalk(_, _, _)
tTickDelayWalk(s, node, fuel) ==
  IF node = tTaskDelayedList THEN s
  ELSE IF fuel = 0 THEN [s EXCEPT !.fault = "hang"]
  ELSE LET t == tNodeParentDelay(node)
       IN IF t \notin Tasks THEN [s EXCEPT !.fault = "undefined"]
          ELSE LET s1 == tTickDelayNode(s, t)
               IN tTickDelayWalk(s1, s1.nextNode[node], fuel - 1)

tTickSlice(s) ==
  LET c == s.curTask
      s1 == [s EXCEPT !.tcb[c].slice = Dec32(@)]
      l == RdyList(s.tcb[c].prio)
  IN IF s1.tcb[c].slice = 0 /\ Pos32(tListCount(s1, l))
       THEN [tListAddLast(tListRemoveFirst(s1, l), l, LinkNode(c))
               EXCEPT !.tcb[c].slice = TINYOS_SLICE_MAX]
       ELSE s1

(* every step of the handler runs only while the machine is still defined *)
Then(s, F(_)) == IF s.fault = "none" THEN F(s) ELSE s

tTaskSystemTickHandler(s, div0) ==
  LET s1 == tTickDelayWalk(s, s.nextNode[tTaskDelayedList], WalkFuel)
      s2 == Then(s1, tTickSlice)
      s3 == Then(s2, LAMBDA a : checkCpuUsage([a EXCEPT !.tickCount = Inc32(@)], div0))
      s4 == Then(s3, tTimerModuleTickNotify)
  IN Then(s4, tTaskSched)

----------------------------------------------------------------------------
(* Task management (tTask.c) *)

tTaskInit(s, t, prio) ==
  LET s1 == [s EXCEPT !.tcb[t] =
               [prio |-> prio, state |-> {}, delayTicks |-> 0,
                slice |-> TINYOS_SLICE_MAX, suspendCount |-> 0,
                waitEvent |-> NoEvent, waitEventResult |-> tErrorNoError]]
      s2 == tNodeInit(tNodeInit(s1, DelayNode(t)), LinkNode(t))
  IN tTaskSchedRdy(s2, t)

tTaskSuspend(s, t) ==
  IF DELAYED \in s.tcb[t].state THEN s
  ELSE LET s1 == [s EXCEPT !.tcb[t].suspendCount = Inc32(@)]
       IN IF s1.tcb[t].suspendCount \in {0, 1}
            THEN LET s2 == [s1 EXCEPT !.tcb[t].state = @ \cup {SUSPEND}]
                     s3 == tTaskSchedUnRdy(s2, t)
                 IN IF t = s3.curTask THEN tTaskSched(s3) ELSE s3
            ELSE s1

tTaskWakeUpAtOnce(s, t) ==
  IF SUSPEND \notin s.tcb[t].state THEN s
  ELSE tTaskSched(tTaskSchedRdy([s EXCEPT !.tcb[t].suspendCount = 0,
                                         !.tcb[t].state = @ \ {SUSPEND}], t))

tTaskWakeUp(s, t) ==
  IF SUSPEND \notin s.tcb[t].state THEN s
  ELSE LET s1 == [s EXCEPT !.tcb[t].suspendCount = Dec32(@)]
       IN IF s1.tcb[t].suspendCount = 0
            THEN tTaskSched(tTaskSchedRdy([s1 EXCEPT !.tcb[t].state = @ \ {SUSPEND}], t))
            ELSE s1

tTaskForceDelete(s, t) ==
  LET s1 == IF DELAYED \in s.tcb[t].state THEN tTimeTaskRemove(s, t)
            ELSE IF SUSPEND \notin s.tcb[t].state THEN tTaskSchedRemove(s, t)
            ELSE s
  IN IF s1.curTask = t THEN tTaskSched(s1) ELSE s1

tTaskDeleteSelf(s) ==
  tTaskSched(tTaskSchedRemove(s, s.curTask))

(* tTaskDelay: the running task sleeps for a number of ticks *)
tTaskDelay(s, ticks) ==
  tTaskSched(tTaskSchedUnRdy(tTimeTaskWait(s, s.curTask, ticks), s.curTask))

----------------------------------------------------------------------------
(* The idle task (taskIdle) and the soft-timer task (tTimerSoftTask) *)

(* tTimerInitTask creates the soft-timer task *)
tTimerInitTask(s) ==
  [tTaskInit(s, TimerTask, TINYOS_TIMERTASK_PRIO) EXCEPT !.life[TimerTask] = "alive"]

tSetSysTickPeriod(s) == [s EXCEPT !.sysTickOn = TRUE]

(* taskIdle up to the call of tInitApp *)
taskIdleStart(s) ==
  [tTaskSchedDisable(s) EXCEPT !.idlePc = "initApp"]

(* taskIdle from the return of tInitApp to cpuUsageSyncWithSysTick *)
taskIdleAfterApp(s) ==
  [tSetSysTickPeriod(tTimerInitTask(s)) EXCEPT !.idlePc = "sync"]

taskIdleCount(s) == [s EXCEPT !.idleCount = Inc32(@)]

(* the soft-timer task woken inside a callback: the call returns, then the
   callback, and the loop body ends for that timer *)
tTimerCallFuncReturn(s, l) ==
  LET x == CHOOSE x \in Timers : s.timer[x].state = tTimerRunning
  IN tTimerCallFuncAfter(tTimerResume(s), l, x)

(* the scan of tTimerSoftTask, from its start or from the callback left
   waiting, up to its end or to a wait inside a callback *)
tTimerSoftScan(s) ==
  LET l == tTimerSoftList
      x == CHOOSE x \in Timers : s.timer[x].state = tTimerRunning
      s0 == IF InCallback(s) THEN tTimerCallFuncReturn(s, l) ELSE s
      from == IF InCallback(s) THEN s0.nextNode[TimerNode(x)] ELSE s0.nextNode[l]
      s1 == tTimerCallFuncWalk(s0, l, from, WalkFuel)
  IN IF InCallback(s1) THEN s1 ELSE [s1 EXCEPT !.timerPc = "notify"]

(* one statement of the loop of tTimerSoftTask *)
tTimerSoftTask(s) ==
  IF s.timerPc = "tick"
    THEN [tSemWait(s, TickSem, 0) EXCEPT !.timerPc = "protect"]
  ELSE IF s.timerPc = "protect"
    THEN [tSemWait(s, ProtectSem, 0) EXCEPT !.timerPc = "scan"]
  ELSE IF s.timerPc = "scan"
    THEN tTimerSoftScan(s)
  ELSE [tSemNotify(s, ProtectSem) EXCEPT !.timerPc = "tick"]

----------------------------------------------------------------------------
(* The state after main() has started the first task *)

ZeroTcb ==
  [prio |-> 0, state |-> {}, delayTicks |-> 0, slice |-> 0, suspendCount |-> 0,
   waitEvent |-> NoEvent, waitEventResult |-> tErrorNoError]

ZeroTimer ==
  [startDelayTicks |-> 0, durationTicks |-> 0, delayTicks |-> 0,
   config |-> TIMER_CONFIG_TYPE_SOFT, state |-> TimerNone, fired |-> 0]

Zeroed ==
  [nextNode |-> [n \in Nodes |-> NullNode], preNode |-> [n \in Nodes |-> NullNode],
   nodeCount |-> [l \in Lists |-> 0],
   taskPrioBitMap |-> {}, curTask |-> NoTask, nextTask |-> NoTask,
   schedLockCounter |-> 0, tcb |-> [t \in Tasks |-> ZeroTcb], tickCount |-> 0,
   enableCpuUsageState |-> 0, idleCount |-> 0, idleMaxCount |-> 0, cpuUsage |-> 0,
   sem |-> [m \in Sems |-> [count |-> 0, maxCount |-> 0]],
   timer |-> [x \in Timers |-> ZeroTimer],
   idlePc |-> "start", sysTickOn |-> FALSE, timerPc |-> "tick",
   cont |-> [t \in Tasks |-> NoCont],
   life |-> [t \in Tasks |-> "none"], fault |-> "none", calls |-> 0,
   op |-> <<"none", "none">>,
   pendSV |-> FALSE, cb |-> <<"none", "none">>]

RECURSIVE tListInitAll(_, _)
tListInitAll(s, ls) ==
  IF ls = {} THEN s
  ELSE LET l == CHOOSE l \in ls : TRUE
       IN tListInitAll(tListInit(s, l), ls \ {l})

tTaskSchedInit(s) ==
  tListInitAll([s EXCEPT !.schedLockCounter = 0], {RdyList(p) : p \in Prios})

tTaskDelayedInit(s) == tListInit(s, tTaskDelayedList)

tTimeTickInit(s) == [s EXCEPT !.tickCount = 0]

initCpuUsageState(s) ==
  [s EXCEPT !.enableCpuUsageState = 0, !.idleCount = 0, !.cpuUsage = 0, !.idleMaxCount = 0]

(* tTaskRunFirst: the first PendSV makes nextTask the running task *)
tTaskRunFirst(s) == PendSV_Handler(tTaskSwitch(s))

main ==
  LET s1 == initCpuUsageState(tTimeTickInit(tTimerModuleInit(
              tTaskDelayedInit(tTaskSchedInit(Zeroed)))))
      s2 == [tTaskInit(s1, IdleTask, TINYOS_PRIO_COUNT - 1) EXCEPT !.life[IdleTask] = "alive"]
      s3 == [s2 EXCEPT !.nextTask = tTaskHighestReady(s2)]
  IN tTaskRunFirst(s3)

Init == Is(main)

----------------------------------------------------------------------------
(* Steps.  A kernel call runs in its critical section and is one step; the
   context switch it pends is taken at its end. *)

Running == fault = "none" /\ curTask \in Tasks

Done(s) == \E r \in {PendSV_Handler(s)} : Becomes(r)

(* an application task between two kernel calls *)
AppRuns ==
  /\ Running
  /\ curTask \in AppTasks
  /\ cont[curTask] = NoCont
  /\ calls < MaxCalls

(* the state an application task's call starts from *)
KApp == [K EXCEPT !.calls = IF curTask \in AppTasks THEN @ + 1 ELSE @]

(* tInitApp, called by the idle task with the scheduler locked *)
InInitApp == Running /\ curTask = IdleTask /\ idlePc = "initApp"

IdleStart ==
  /\ Running /\ curTask = IdleTask /\ idlePc = "start"
  /\ Done(tSemInit(taskIdleStart(K), AppSem, 0, 1))

IdleAfterApp ==
  /\ InInitApp
  /\ Done(taskIdleAfterApp(K))

IdleSync ==
  /\ Running /\ curTask = IdleTask /\ idlePc = "sync"
  /\ enableCpuUsageState # 0
  /\ Done([K EXCEPT !.idlePc = "loop"])

IdleCount ==
  /\ Running /\ curTask = IdleTask /\ idlePc = "loop"
  /\ idleCount < MaxIdle
  /\ Done(taskIdleCount(K))

TimerTaskStep ==
  /\ Running /\ curTask = TimerTask
  /\ Done(tTimerSoftTask(K))

Tick ==
  /\ fault = "none" /\ curTask \in Tasks
  /\ sysTickOn
  /\ tickCount < MaxTicks
  /\ \E div0 \in Div0Outcomes :
       Done(tTaskSystemTickHandler(K, div0))

AppTaskInit(t, p) ==
  /\ AppRuns \/ InInitApp
  /\ life[t] = "none"
  /\ Done([tTaskInit(KApp, t, p) EXCEPT !.life[t] = "alive"])

AppSchedDisable ==
  /\ AppRuns
  /\ schedLockCounter < MaxLock
  /\ Done(tTaskSchedDisable(KApp))

AppSchedEnable ==
  /\ AppRuns
  /\ Done(tTaskSchedEnable(KApp))

AppSuspend(t) ==
  /\ AppRuns
  /\ life[t] = "alive"
  /\ t = curTask => schedLockCounter = 0
  /\ tcb[t].suspendCount < MaxSuspend
  /\ Done(tTaskSuspend(KApp, t))

AppWakeUp(t) ==
  /\ AppRuns
  /\ life[t] = "alive"
  /\ Done(tTaskWakeUp(KApp, t))

AppForceDelete(t) ==
  /\ AppRuns
  /\ life[t] = "alive"
  /\ t = curTask => schedLockCounter = 0
  /\ Done([tTaskForceDelete(KApp, t) EXCEPT !.life[t] = "deleted"])

AppDeleteSelf ==
  /\ AppRuns
  /\ schedLockCounter = 0
  /\ Done([tTaskDeleteSelf(KApp) EXCEPT !.life[curTask] = "deleted"])

AppDelay(n) ==
  /\ AppRuns
  /\ schedLockCounter = 0
  /\ Done(tTaskDelay(KApp, n))

AppSemWait(timeout) ==
  /\ AppRuns
  /\ schedLockCounter = 0
  /\ Done(tSemWait(KApp, AppSem, timeout))

AppSemNotify ==
  /\ AppRuns
  /\ Done(tSemNotify(KApp, AppSem))

Next ==
  \/ IdleStart
  \/ IdleAfterApp
  \/ IdleSync
  \/ TimerTaskStep
  \/ Tick
  \/ \E t \in AppTasks, p \in AppPrios : AppTaskInit(t, p)
  \/ AppSchedDisable
  \/ AppSchedEnable
  \/ \E t \in AppTasks : AppSuspend(t)
  \/ \E t \in AppTasks : AppWakeUp(t)
  \/ \E t \in AppTasks : AppForceDelete(t)
  \/ AppDeleteSelf
  \/ \E n \in 1 .. MaxDelay : AppDelay(n)
  \/ \E n \in 0 .. MaxDelay : AppSemWait(n)
  \/ AppSemNotify

Spec == Init /\ [][Next]_vars

----------------------------------------------------------------------------
(* The timer interface.  tInitApp initialises the timers, each at most
   once, with a start delay, a period and a list chosen from small sets; an
   application task starts and stops them. *)

TimerDelays == {0, MaxTimerDelay}
TimerPeriods == 0 .. MaxTimerPeriod
TimerConfigs == {TIMER_CONFIG_TYPE_HARD, TIMER_CONFIG_TYPE_SOFT}

AppRunsTimers ==
  /\ Running
  /\ curTask \in AppTasks
  /\ cont[curTask] = NoCont
  /\ calls < MaxTimerCalls

AppTimerInit(x, d, r, c) ==
  /\ InInitApp
  /\ timer[x].state = TimerNone
  /\ Done([tTimerInit(K, x, d, r, c) EXCEPT !.op = <<"init", x>>])

AppTimerStart(x) ==
  /\ AppRunsTimers
  /\ timer[x].state # TimerNone
  /\ Done([tTimerStart(KApp, x) EXCEPT !.op = <<"start", x>>])

AppTimerStop(x) ==
  /\ AppRunsTimers
  /\ timer[x].state # TimerNone
  /\ Done([tTimerStop(KApp, x) EXCEPT !.op = <<"stop", x>>])

AppTimerDestroy(x) ==
  /\ AppRunsTimers
  /\ timer[x].state # TimerNone
  /\ Done([tTimerDestroy(KApp, x) EXCEPT !.op = <<"destroy", x>>])

(* tInitApp creates the one task that uses the timers *)
TimerAppInit ==
  /\ InInitApp
  /\ AppTaskInit("t1", TINYOS_TIMERTASK_PRIO + 1)

NextTimer ==
  \/ IdleStart
  \/ TimerAppInit
  \/ IdleAfterApp
  \/ IdleSync
  \/ TimerTaskStep
  \/ Tick /\ tickCount < MaxTimerTicks
  \/ \E x \in Timers, d \in TimerDelays, r \in TimerPeriods, c \in TimerConfigs :
       AppTimerInit(x, d, r, c)
  \/ \E x \in Timers : AppTimerStart(x)
  \/ \E x \in Timers : AppTimerStop(x)

SpecTimer == Init /\ [][NextTimer]_vars

----------------------------------------------------------------------------
(* Timers whose callbacks call the timer interface.  The callback invoked
   by a scan makes one call, tTimerStart or tTimerStop on some timer, or
   none; a callback invoked from the tick handler calls only on hard
   timers.  tInitApp may start the timers it has initialised. *)

CallbackCalls ==
  {<<"none", "none">>} \cup {<<k, y>> : k \in {"start", "stop"}, y \in Timers}

TimerTaskStepCb(c) ==
  /\ Running /\ curTask = TimerTask
  /\ Done(tTimerSoftTask([K EXCEPT !.cb = c]))

TickCb(c) ==
  /\ fault = "none" /\ curTask \in Tasks
  /\ sysTickOn
  /\ tickCount < MaxCbTicks
  /\ c[1] # "none" => timer[c[2]].config = TIMER_CONFIG_TYPE_HARD /\ timer[c[2]].state # TimerNone
  /\ \E div0 \in Div0Outcomes :
       Done(tTaskSystemTickHandler([K EXCEPT !.cb = c], div0))

InitTimerStart(x) ==
  /\ InInitApp
  /\ timer[x].state = tTimerCreated
  /\ Done([tTimerStart(K, x) EXCEPT !.op = <<"start", x>>])

NextCallback ==
  \/ IdleStart
  \/ TimerAppInit
  \/ IdleAfterApp
  \/ IdleSync
  \/ \E c \in CallbackCalls : TimerTaskStepCb(c)
  \/ \E c \in CallbackCalls : TickCb(c)
  \/ \E x \in Timers, d \in TimerDelays, r \in TimerPeriods, c \in TimerConfigs :
       AppTimerInit(x, d, r, c)
  \/ \E x \in Timers : InitTimerStart(x)
  \/ calls < MaxCbCalls /\ \E x \in Timers : AppTimerStart(x)
  \/ calls < MaxCbCalls /\ \E x \in Timers : AppTimerStop(x)
  \/ calls < MaxCbCalls /\ \E x \in Timers : AppTimerDestroy(x)

SpecCallback == Init /\ [][NextCallback]_vars

----------------------------------------------------------------------------
(* Two tasks calling tTimerStart.  A task executes tTimerStart one
   statement at a step, and a tick may switch the processor to the other
   task between any two of them; cont holds the statement a task has
   reached.  The insertion, inside the critical section or under
   tTimerProtectSem, is one step.  tInitApp creates the tasks and
   initialises the one timer they start. *)

RaceTimers == {"x1"}

RaceRuns == Running /\ curTask \in AppTasks

RaceStartTest(x) ==
  /\ RaceRuns /\ cont[curTask] = NoCont
  /\ calls < MaxRaceCalls
  /\ timer[x].state # TimerNone
  /\ Done([KApp EXCEPT !.cont[curTask] =
                         IF tTimerStartTest(K, x) THEN <<"load", x>> ELSE NoCont,
                       !.op = <<"test", x>>])

RaceStartLoad(x) ==
  /\ RaceRuns /\ cont[curTask] = <<"load", x>>
  /\ Done([tTimerStartLoad(K, x) EXCEPT !.cont[curTask] = <<"mark", x>>,
                                        !.op = <<"load", x>>])

RaceStartMark(x) ==
  /\ RaceRuns /\ cont[curTask] = <<"mark", x>>
  /\ Done([tTimerStartMark(K, x) EXCEPT !.cont[curTask] = <<"link", x>>,
                                        !.op = <<"mark", x>>])

RaceStartLink(x) ==
  /\ RaceRuns /\ cont[curTask] = <<"link", x>>
  /\ Done([tTimerStartLink([K EXCEPT !.cont[curTask] = NoCont], x)
             EXCEPT !.op = <<"start", x>>])

NextRace ==
  \/ IdleStart
  \/ \E t \in AppTasks, p \in AppPrios : InInitApp /\ AppTaskInit(t, p)
  \/ \E x \in RaceTimers, d \in TimerDelays, r \in TimerPeriods, c \in TimerConfigs :
       AppTimerInit(x, d, r, c)
  \/ IdleAfterApp
  \/ IdleSync
  \/ TimerTaskStep
  \/ Tick /\ tickCount < MaxTimerTicks
  \/ \E x \in RaceTimers : RaceStartTest(x)
  \/ \E x \in RaceTimers : RaceStartLoad(x)
  \/ \E x \in RaceTimers : RaceStartMark(x)
  \/ \E x \in RaceTimers : RaceStartLink(x)
  \/ calls < MaxRaceCalls /\ \E n \in 1 .. MaxDelay : AppDelay(n)

SpecRace == Init /\ [][NextRace]_vars

----------------------------------------------------------------------------
(* The idle task counting.  tInitApp creates the application's tasks; the
   idle task counts in its loop whenever it runs; the tasks sleep. *)

NextCpu ==
  \/ IdleStart
  \/ \E t \in AppTasks, p \in AppPrios : InInitApp /\ AppTaskInit(t, p)
  \/ IdleAfterApp
  \/ IdleSync
  \/ IdleCount
  \/ TimerTaskStep
  \/ Tick
  \/ \E n \in 1 .. MaxDelay : AppDelay(n)

SpecCpu == Init /\ [][NextCpu]_vars

----------------------------------------------------------------------------
(* The soft-timer task under fair scheduling.  tInitApp creates one task,
   which locks and unlocks the scheduler and creates a second task.  The
   processor always executes the running task, so a step of the soft-timer
   task that is possible is eventually taken. *)

LiveRuns ==
  /\ Running
  /\ curTask \in AppTasks
  /\ calls < MaxLiveCalls

LiveSchedDisable ==
  /\ LiveRuns
  /\ schedLockCounter < MaxLock
  /\ Done(tTaskSchedDisable(KApp))

LiveSchedEnable ==
  /\ LiveRuns
  /\ schedLockCounter > 0
  /\ Done(tTaskSchedEnable(KApp))

LiveTaskInit(t, p) ==
  /\ LiveRuns
  /\ life[t] = "none"
  /\ Done([tTaskInit(KApp, t, p) EXCEPT !.life[t] = "alive"])

NextLive ==
  \/ IdleStart
  \/ TimerAppInit
  \/ IdleAfterApp
  \/ IdleSync
  \/ TimerTaskStep
  \/ Tick
  \/ LiveSchedDisable
  \/ LiveSchedEnable
  \/ \E p \in AppPrios : LiveTaskInit("t2", p)

SpecLive ==
  /\ Init
  /\ [][NextLive]_vars
  /\ WF_vars(TimerTaskStep)

----------------------------------------------------------------------------
(* What a list holds: the nodes met by following nextNode from the head,
   up to the head, a node met before, or a null pointer. *)

RECURSIVE ListWalk(_, _, _, _)
ListWalk(nx, l, n, acc) ==
  IF n = l \/ n = NullNode \/ (\E i \in 1 .. Len(acc) : acc[i] = n)
    THEN acc
    ELSE ListWalk(nx, l, nx[n], Append(acc, n))

ListSeqIn(nx, l) == ListWalk(nx, l, nx[l], << >>)
ContentsIn(nx, l) == {ListSeqIn(nx, l)[i] : i \in 1 .. Len(ListSeqIn(nx, l))}
ListSeq(l) == ListSeqIn(nextNode, l)
Contents(l) == ContentsIn(nextNode, l)
OnList(l, n) == n \in Contents(l)

(* the walk ends at the head, backward links mirror forward links, and the
   count is the number of nodes *)
WellFormedIn(nx, pv, cnt, l) ==
  LET q == ListSeqIn(nx, l)
      last == IF Len(q) = 0 THEN l ELSE q[Len(q)]
  IN /\ nx[last] = l
     /\ pv[l] = last
     /\ \A i \in 1 .. Len(q) : pv[q[i]] = IF i = 1 THEN l ELSE q[i - 1]
     /\ cnt[l] = Len(q)

WellFormed(l) == WellFormedIn(nextNode, preNode, nodeCount, l)
Initialised(l) == nextNode[l] # NullNode

ReadyLists == {RdyList(p) : p \in Prios}
WaitLists == {WaitList(e) : e \in Sems}
Created == {t \in Tasks : life[t] # "none"}
Alive == {t \in Tasks : life[t] = "alive"}
READY(t) == tcb[t].state = {}

(* the head of the non-empty ready list of the smallest priority runs *)
NonEmptyPrios == {p \in Prios : Contents(RdyList(p)) # {}}
RunsHighest ==
  /\ NonEmptyPrios # {}
  /\ curTask \in Tasks
  /\ nextNode[RdyList(Min(NonEmptyPrios))] = LinkNode(curTask)

----------------------------------------------------------------------------
(* C1: for every priority p, bit p of taskPrioBitMap is set if and only if
   taskTable[p] holds at least one task. *)
C1_BitMapMatchesTable ==
  \A p \in Prios : (p \in taskPrioBitMap) <=> (Contents(RdyList(p)) # {})

SchedSteps ==
  \/ Tick
  \/ AppSchedEnable /\ schedLockCounter = 1
  \/ \E n \in 1 .. MaxDelay : AppDelay(n)
  \/ AppDeleteSelf
  \/ \E t \in AppTasks : AppWakeUp(t) /\ SUSPEND \in tcb[t].state /\ tcb[t].suspendCount = 1

(* C2: whenever a step has ended with tTaskSched returning and the switch
   taken, with schedLockCounter = 0, the running task is the head of the
   ready list of the smallest priority that has a ready task.  Stated for
   the steps that leave the machine defined. *)
C2_RunsHighestAfterSched ==
  [][(SchedSteps /\ schedLockCounter' = 0 /\ fault' = "none") => RunsHighest']_vars

ListsHolding(t) == {l \in ReadyLists \cup WaitLists : OnList(l, LinkNode(t))}

(* C3: a task's linkNode is on at most one of the ready and event wait
   lists, each of these lists is a proper ring whose count is the number of
   nodes it links, and a task whose state is READY is on the ready list of
   its priority. *)
C3_LinkNodeOnOneList ==
  fault = "none" =>
    /\ \A l \in ReadyLists \cup WaitLists : Initialised(l) => WellFormed(l)
    /\ \A t \in Alive :
         /\ Cardinality(ListsHolding(t)) <= 1
         /\ READY(t) => OnList(RdyList(tcb[t].prio), LinkNode(t))

(* C4: a task's delayNode is on tTaskDelayedList if and only if the DELAYED
   bit of its state is set, a task deleted by tTaskForceDelete included. *)
C4_DelayNodeIffDelayed ==
  \A t \in Created :
    OnList(tTaskDelayedList, DelayNode(t)) <=> (DELAYED \in tcb[t].state)

Sleeping(t) ==
  /\ t \in Alive
  /\ DELAYED \in tcb[t].state
  /\ OnList(tTaskDelayedList, DelayNode(t))

TickOnSleeper(t) ==
  LET rdy == RdyList(tcb[t].prio)
      e == tcb[t].waitEvent
  IN IF tcb[t].delayTicks = 1
       THEN /\ DelayNode(t) \notin ContentsIn(nextNode', tTaskDelayedList)
            /\ DELAYED \notin tcb'[t].state
            /\ LinkNode(t) \in ContentsIn(nextNode', rdy)
            /\ WellFormedIn(nextNode', preNode', nodeCount', rdy)
            /\ e # NoEvent =>
                 /\ LinkNode(t) \notin ContentsIn(nextNode', WaitList(e))
                 /\ tcb'[t].waitEvent = NoEvent
                 /\ tcb'[t].waitEventResult = tErrorTimeOut
       ELSE /\ DelayNode(t) \in ContentsIn(nextNode', tTaskDelayedList)
            /\ DELAYED \in tcb'[t].state
            /\ tcb'[t].delayTicks = tcb[t].delayTicks - 1

(* C5: the tick that brings a delayed task's delayTicks to 0 takes it off
   tTaskDelayedList, clears DELAYED, puts it on the ready list of its
   priority exactly once, and, when it was waiting on an event, takes it off
   the wait list with result tErrorTimeOut; an earlier tick only counts
   delayTicks down. *)
C5_DelayExpiresAtNthTick ==
  [][(Tick /\ fault' = "none") => \A t \in Tasks : Sleeping(t) => TickOnSleeper(t)]_vars

ReadyTasks(tc, lf) == {t \in Tasks : lf[t] = "alive" /\ tc[t].state = {}}
Group(tc, lf, p) == {t \in ReadyTasks(tc, lf) : tc[t].prio = p}
TopPrio(tc, lf) == Min({tc[u].prio : u \in ReadyTasks(tc, lf)})

SharesCpu ==
  /\ schedLockCounter = 0
  /\ curTask \in ReadyTasks(tcb, life)
  /\ tcb[curTask].prio = TopPrio(tcb, life)
  /\ nextNode[RdyList(tcb[curTask].prio)] = LinkNode(curTask)
  /\ Cardinality(Group(tcb, life, tcb[curTask].prio)) >= 2

(* C6: while the same k >= 2 tasks are READY at the priority of the running
   task, which is the highest ready priority, and the scheduler is unlocked,
   a tick that ends the running task's slice gives the turn (the head of
   that priority's ready list) to another task of the group, and a tick
   that does not end the slice leaves the turn with the running task. *)
C6_RoundRobin ==
  [][( /\ Tick
       /\ fault' = "none"
       /\ SharesCpu
       /\ Group(tcb', life', tcb[curTask].prio) = Group(tcb, life, tcb[curTask].prio) )
     => LET p == tcb[curTask].prio
            g == Group(tcb, life, p)
        IN IF tcb[curTask].slice = 1
             THEN \E u \in g \ {curTask} : nextNode'[RdyList(p)] = LinkNode(u)
             ELSE nextNode'[RdyList(p)] = LinkNode(curTask)]_vars

KernelVars ==
  <<nextNode, preNode, nodeCount, taskPrioBitMap, curTask, nextTask,
    schedLockCounter, tcb, tickCount, sem, timer>>

(* C7: tTaskSchedDisable counts the lock up, tTaskSchedEnable counts it
   down; no step taken with the lock held before and after switches task;
   the enable that brings the counter from 1 to 0 leaves the head of the
   highest-priority non-empty ready list running; an enable at counter 0
   changes nothing. *)
C7_SchedLockNesting ==
  [][ /\ (schedLockCounter > 0 /\ schedLockCounter' > 0)
         => (curTask' = curTask /\ nextTask' = nextTask)
      /\ AppSchedDisable => schedLockCounter' = schedLockCounter + 1
      /\ (AppSchedEnable /\ schedLockCounter > 1)
         => schedLockCounter' = schedLockCounter - 1
      /\ (AppSchedEnable /\ schedLockCounter = 0) => UNCHANGED KernelVars
      /\ (AppSchedEnable /\ schedLockCounter = 1 /\ fault' = "none")
         => (schedLockCounter' = 0 /\ RunsHighest') ]_vars

TimerListOf(x) ==
  IF timer[x].config = TIMER_CONFIG_TYPE_HARD THEN tTimerHardList ELSE tTimerSoftList

TimerOnList(x) == OnList(TimerListOf(x), TimerNode(x))

(* C8: tTimerStop on a timer in state tTimerStarted or tTimerRunning takes
   it off its list and leaves it in state tTimerStopped; on a timer in any
   other state it changes neither the timer nor the lists. *)
C8_StopLeavesStopped ==
  [][\A x \in Timers :
       (op' = <<"stop", x>> /\ fault' = "none" /\ cont' = cont) =>
         IF timer[x].state \in {tTimerStarted, tTimerRunning}
           THEN /\ TimerNode(x) \notin ContentsIn(nextNode', TimerListOf(x))
                /\ timer'[x].state = tTimerStopped
           ELSE UNCHANGED <<timer, nextNode, preNode, nodeCount>>]_vars

(* C9: tTimerStart on a timer that is off its list, after tTimerInit or
   after a start, ticks and tTimerStop, leaves it on its list once, in
   state tTimerStarted, with delayTicks set to its start delay, or to its
   period when the start delay is 0. *)
C9_RestartAfterStop ==
  [][\A x \in Timers :
       ( /\ op' = <<"start", x>> /\ fault' = "none" /\ cont' = cont
         /\ timer[x].state \notin {TimerNone, tTimerDestroyed}
         /\ ~TimerOnList(x) ) =>
         /\ TimerNode(x) \in ContentsIn(nextNode', TimerListOf(x))
         /\ WellFormedIn(nextNode', preNode', nodeCount', TimerListOf(x))
         /\ timer'[x].state = tTimerStarted
         /\ timer'[x].delayTicks =
              IF timer[x].startDelayTicks # 0 THEN timer[x].startDelayTicks
              ELSE timer[x].durationTicks]_vars

OneShot(x) ==
  /\ timer[x].state \notin {TimerNone, tTimerDestroyed}
  /\ timer[x].durationTicks = 0
  /\ timer[x].startDelayTicks > 0

Armed(x) == timer[x].state = tTimerStarted /\ TimerOnList(x)

ArmedNext(x) ==
  /\ timer'[x].state = tTimerStarted
  /\ TimerNode(x) \in ContentsIn(nextNode', TimerListOf(x))

ScansListOf(x) ==
  IF timer[x].config = TIMER_CONFIG_TYPE_HARD
    THEN Tick
    ELSE TimerTaskStep /\ timerPc = "scan"

(* C10: a one-shot timer (period 0, start delay d > 0) that has been started
   counts d scans of its list down, fires at the d-th, and is then off the
   list in state tTimerStopped; until then nothing but a call on the timer
   itself disarms it, and while it is not armed it does not fire. *)
C10_OneShotFiresOnce ==
  [][\A x \in Timers : (OneShot(x) /\ fault' = "none") =>
       IF ~Armed(x)
         THEN op' # <<"start", x>> => timer'[x].fired = timer[x].fired
       ELSE IF ScansListOf(x)
         THEN IF timer[x].delayTicks = 1
                THEN /\ timer'[x].fired = timer[x].fired + 1
                     /\ timer'[x].state = tTimerStopped
                     /\ TimerNode(x) \notin ContentsIn(nextNode', TimerListOf(x))
                ELSE /\ timer'[x].delayTicks = timer[x].delayTicks - 1
                     /\ timer'[x].fired = timer[x].fired
                     /\ ArmedNext(x)
       ELSE op' \notin {<<"start", x>>, <<"stop", x>>} =>
              /\ ArmedNext(x)
              /\ timer'[x].delayTicks = timer[x].delayTicks
              /\ timer'[x].fired = timer[x].fired]_vars

HardPeriodic(x) ==
  /\ timer[x].state \notin {TimerNone, tTimerDestroyed}
  /\ timer[x].config = TIMER_CONFIG_TYPE_HARD
  /\ timer[x].durationTicks > 0

(* C11: a started hard timer with period p > 0 has its callback invoked by
   the tick handler exactly on the tick that brings delayTicks (set by start
   to the start delay d, or to p when d is 0) to 0, delayTicks is then
   reloaded with p, and a tick before that only counts delayTicks down; a
   step that is no tick and no call on the timer itself neither invokes the
   callback nor disarms the timer. *)
C11_HardTimerFiresOnSchedule ==
  [][\A x \in Timers : (HardPeriodic(x) /\ Armed(x) /\ fault' = "none") =>
       IF Tick
         THEN IF timer[x].delayTicks <= 1
                THEN /\ timer'[x].fired = timer[x].fired + 1
                     /\ timer'[x].delayTicks = timer[x].durationTicks
                     /\ ArmedNext(x)
                ELSE /\ timer'[x].fired = timer[x].fired
                     /\ timer'[x].delayTicks = timer[x].delayTicks - 1
                     /\ ArmedNext(x)
         ELSE op' \notin {<<"start", x>>, <<"stop", x>>} =>
                /\ ArmedNext(x)
                /\ timer'[x].delayTicks = timer[x].delayTicks
                /\ timer'[x].fired = timer[x].fired]_vars

(* tick notifications not yet served by a scan: the count of tTimerTickSem,
   and the one the soft-timer task has taken when it is past its wait *)
PendingScans ==
  sem[TickSem].count
    + (IF timerPc \in {"protect", "scan"} /\ tcb[TimerTask].waitEvent # TickSem
         THEN 1 ELSE 0)

(* C12: every tick notification is eventually served by a scan of the soft
   list: if from some moment on the scheduler stays unlocked and the machine
   defined, then (the ticks of a run being finitely many) from some moment
   on no notification is left unserved. *)
C12_TicksAreServed ==
  <>[](schedLockCounter = 0 /\ fault = "none" /\ life[TimerTask] = "alive")
    => <>[](PendingScans = 0)

(* the soft-timer task waits for tTimerProtectSem inside a callback of its
   own scan, and no other task is between taking and releasing it *)
WaitsOnOwnProtectSem ==
  /\ cont[TimerTask] # NoCont
  /\ tcb[TimerTask].waitEvent = ProtectSem
  /\ sem[ProtectSem].count = 0
  /\ \A t \in Tasks \ {TimerTask} : cont[t] # NoCont => tcb[t].waitEvent = ProtectSem

(* C13: a soft-timer callback may call tTimerStart or tTimerStop on a soft
   timer: the soft-timer task, which holds tTimerProtectSem during its scan,
   is never left waiting for that semaphore inside the callback with nobody
   to release it. *)
C13_CallbackNeverSelfBlocks ==
  fault = "none" => ~WaitsOnOwnProtectSem

(* the calibration second: from the start of taskIdle to the tick on which
   tickCount reaches TICKS_PER_SEC *)
Calibrating ==
  /\ idlePc # "start"
  /\ enableCpuUsageState = 0 \/ tickCount < TICKS_PER_SEC

CalibrationTick ==
  /\ Tick
  /\ enableCpuUsageState # 0
  /\ Inc32(tickCount) = TICKS_PER_SEC

(* C14: from the idle task's tTaskSchedDisable to the tick on which
   tickCount = TICKS_PER_SEC the idle task is the running task and holds
   the scheduler lock; that tick sets idleMaxCount to the idleCount
   accumulated so far, releases the lock, and leaves the head of the
   highest-priority non-empty ready list running. *)
C14_CalibrationSecond ==
  [][ /\ (Calibrating /\ fault = "none")
         => (curTask = IdleTask /\ schedLockCounter = 1)
      /\ (CalibrationTick /\ fault' = "none")
         => /\ idleMaxCount' = idleCount
            /\ idleCount' = 0
            /\ schedLockCounter' = 0
            /\ ~Calibrating'
            /\ RunsHighest' ]_vars

C14_Witness ==
  /\ fault = "none"
  /\ tickCount = TICKS_PER_SEC
  /\ idleMaxCount = MaxIdle
  /\ schedLockCounter = 0
  /\ curTask = TimerTask
  /\ timerPc = "tick"
  /\ \E t \in AppTasks : life[t] = "alive"

(* C15 as stated: every call of tTaskSystemTickHandler, the first one
   included, leaves tickCount strictly greater than before. *)
C15_TickCountIncreases ==
  [][(Tick /\ fault' = "none") => tickCount' > tickCount]_vars

(* C15, amended: every call of tTaskSystemTickHandler made once
   enableCpuUsageState is 1, that is from the second tick on, leaves
   tickCount one greater than before; the first call, made with
   enableCpuUsageState 0, leaves tickCount at 0. *)
C15_TickCountIncreasesAfterSync ==
  [][(Tick /\ fault' = "none") =>
       IF enableCpuUsageState = 0
         THEN tickCount' = 0 /\ enableCpuUsageState' = 1
         ELSE tickCount' = Inc32(tickCount) /\ tickCount' > tickCount]_vars

C15_Witness ==
  /\ fault = "none"
  /\ enableCpuUsageState = 1
  /\ tickCount = TICKS_PER_SEC + 2

(* the kernel state at the slice test of the tick handler: after the loop
   over tTaskDelayedList has made the tasks whose delay ends ready *)
AtSliceTest == tTickDelayWalk(K, nextNode[tTaskDelayedList], WalkFuel)

RotationDue ==
  LET s1 == AtSliceTest
      l == RdyList(tcb[curTask].prio)
  IN /\ curTask \in Tasks
     /\ tcb[curTask].prio # TINYOS_TIMERTASK_PRIO
     /\ s1.fault = "none"
     /\ s1.tcb[curTask].slice = 1
     /\ WellFormedIn(s1.nextNode, s1.preNode, s1.nodeCount, l)
     /\ s1.nodeCount[l] >= 2

(* C16: when the tick handler finds curTask's slice reaching 0 and the ready
   list of curTask's priority holds at least 2 tasks, the task at the head
   of that list goes to its tail with its slice reset to TINYOS_SLICE_MAX,
   the other tasks keep their order, and the list's nodeCount is unchanged;
   also when a task of that priority was put at the head since curTask
   started running or earlier in the same tick. *)
C16_RotationMovesOnlyHead ==
  [][(Tick /\ fault' = "none" /\ RotationDue) =>
       LET s1 == AtSliceTest
           l == RdyList(tcb[curTask].prio)
           q == ListSeqIn(s1.nextNode, l)
       IN /\ ListSeqIn(nextNode', l) = Append(Tail(q), q[1])
          /\ WellFormedIn(nextNode', preNode', nodeCount', l)
          /\ nodeCount'[l] = s1.nodeCount[l]
          /\ tcb'[tNodeParentLink(q[1])].slice = TINYOS_SLICE_MAX]_vars

OnSomeReadyList(t) == \E l \in ReadyLists : OnList(l, LinkNode(t))

OnSomeReadyListNext(t) ==
  \E l \in ReadyLists : LinkNode(t) \in ContentsIn(nextNode', l)

TaskVars == <<nextNode, preNode, nodeCount, taskPrioBitMap, curTask, tcb>>

(* a task that is READY and linked once on the ready list of its priority *)
ReadyOnList(t) ==
  /\ tcb[t].state = {}
  /\ WellFormed(RdyList(tcb[t].prio))
  /\ OnList(RdyList(tcb[t].prio), LinkNode(t))

(* a task suspended from READY: only SUSPEND is set and it is on no ready list *)
SuspendedOffList(t) ==
  /\ tcb[t].state = {SUSPEND}
  /\ WellFormed(RdyList(tcb[t].prio))
  /\ ~OnSomeReadyList(t)

(* C17: the first tTaskSuspend on a ready, non-delayed task takes it off
   its ready list, sets SUSPEND and suspendCount = 1; each further
   tTaskSuspend only counts suspendCount up; a tTaskWakeUp with
   suspendCount > 1 only counts it down; the tTaskWakeUp that brings it to 0
   clears SUSPEND and puts the task on its ready list again, once, and the
   reschedule leaves a task of at least its priority running; in between no
   other step puts the task on a ready list; SUSPEND is set iff
   suspendCount > 0; tTaskWakeUp on a task that is not suspended and
   tTaskSuspend on a DELAYED task change nothing. *)
C17_NestedSuspend ==
  [][\A t \in AppTasks :
       LET rdy == RdyList(tcb[t].prio)
           k == tcb[t].suspendCount
       IN /\ (AppSuspend(t) /\ fault' = "none" /\ ReadyOnList(t) /\ k = 0) =>
               /\ tcb'[t].state = {SUSPEND}
               /\ tcb'[t].suspendCount = 1
               /\ ~OnSomeReadyListNext(t)
               /\ WellFormedIn(nextNode', preNode', nodeCount', rdy)
          /\ (AppSuspend(t) /\ SuspendedOffList(t)) =>
               /\ tcb'[t] = [tcb[t] EXCEPT !.suspendCount = k + 1]
               /\ UNCHANGED <<nextNode, preNode, nodeCount, taskPrioBitMap, curTask>>
          /\ (AppSuspend(t) /\ DELAYED \in tcb[t].state) => UNCHANGED TaskVars
          /\ (AppWakeUp(t) /\ SUSPEND \notin tcb[t].state) => UNCHANGED TaskVars
          /\ (AppWakeUp(t) /\ SuspendedOffList(t) /\ k > 1) =>
               /\ tcb'[t] = [tcb[t] EXCEPT !.suspendCount = k - 1]
               /\ UNCHANGED <<nextNode, preNode, nodeCount, taskPrioBitMap, curTask>>
          /\ (AppWakeUp(t) /\ fault' = "none" /\ SuspendedOffList(t) /\ k = 1) =>
               /\ tcb'[t].state = {}
               /\ tcb'[t].suspendCount = 0
               /\ LinkNode(t) \in ContentsIn(nextNode', rdy)
               /\ WellFormedIn(nextNode', preNode', nodeCount', rdy)
               /\ schedLockCounter = 0 => tcb'[curTask'].prio <= tcb[t].prio
          /\ (SuspendedOffList(t) /\ life[t] = "alive" /\ ~AppWakeUp(t) /\ fault' = "none") =>
               /\ SUSPEND \in tcb'[t].state
               /\ ~OnSomeReadyListNext(t)
          /\ (life'[t] # "none") =>
               ((SUSPEND \in tcb'[t].state) <=> Pos32(tcb'[t].suspendCount))]_vars

C17_Witness ==
  \E t \in AppTasks :
    /\ fault = "none"
    /\ life[t] = "alive"
    /\ SuspendedOffList(t)
    /\ tcb[t].suspendCount = MaxSuspend

OtherTimerListOf(x) ==
  IF timer[x].config = TIMER_CONFIG_TYPE_HARD THEN tTimerSoftList ELSE tTimerHardList

(* C18: a completed tTimerStart on a timer in state tTimerCreated or
   tTimerStopped sets delayTicks to the start delay (to the period when the
   start delay is 0), sets state tTimerStarted and links the timer, at the
   head of tTimerHardList when it is a hard timer and at the tail of
   tTimerSoftList otherwise, counting it once; when that list was a proper
   ring not holding the timer, it is afterwards a proper ring holding the
   timer once with the other timers in their order.  On a timer in any other
   state the call changes neither the timer nor the lists. *)
C18_StartOnlyFromCreatedOrStopped ==
  [][\A x \in Timers :
       (op' = <<"start", x>> /\ fault' = "none" /\ cont' = cont) =>
         IF timer[x].state \in {tTimerCreated, tTimerStopped}
           THEN LET l == TimerListOf(x)
                    hard == timer[x].config = TIMER_CONFIG_TYPE_HARD
                    q == ListSeq(l)
                IN /\ timer'[x] =
                        [timer[x] EXCEPT
                           !.state = tTimerStarted,
                           !.delayTicks = IF timer[x].startDelayTicks # 0
                                            THEN timer[x].startDelayTicks
                                            ELSE timer[x].durationTicks]
                   /\ TimerNode(x) \in ContentsIn(nextNode', l)
                   /\ IF hard THEN nextNode'[l] = TimerNode(x)
                              ELSE preNode'[l] = TimerNode(x)
                   /\ nodeCount'[l] = Inc32(nodeCount[l])
                   /\ TimerNode(x) \notin ContentsIn(nextNode', OtherTimerListOf(x))
                   /\ (WellFormed(l) /\ ~OnList(l, TimerNode(x))) =>
                        /\ WellFormedIn(nextNode', preNode', nodeCount', l)
                        /\ ListSeqIn(nextNode', l) =
                             IF hard THEN <<TimerNode(x)>> \o q
                                     ELSE Append(q, TimerNode(x))
           ELSE UNCHANGED <<timer, nextNode, preNode, nodeCount>>]_vars

C18_Witness ==
  \E x \in Timers :
    /\ fault = "none"
    /\ op = <<"start", x>>
    /\ timer[x].durationTicks = 0
    /\ timer[x].fired = 1
    /\ timer[x].state = tTimerStarted
    /\ TimerOnList(x)

(* the tick about to be handled reaches the quotient of checkCpuUsage: the
   loop over the delayed list and the slice test complete, the measurement
   is enabled, and the incremented tickCount is a multiple of TICKS_PER_SEC
   other than TICKS_PER_SEC itself *)
RatioEvaluated ==
  LET s2 == Then(tTickDelayWalk(K, nextNode[tTaskDelayedList], WalkFuel), tTickSlice)
      tc == Inc32(tickCount)
  IN /\ s2.fault = "none"
     /\ enableCpuUsageState # 0
     /\ tc # TICKS_PER_SEC
     /\ tc % TICKS_PER_SEC = 0

(* C19: whenever a call of the tick handler evaluates the quotient
   idleCount / idleMaxCount in checkCpuUsage, idleMaxCount is greater than
   0, so no tick divides by zero. *)
C19_NoDivisionByZero ==
  [][(Tick /\ RatioEvaluated) => idleMaxCount > 0]_vars

(* a call of the timer interface, or a scan of the soft list, is suspended
   part-way at a semaphore *)
MidTimerCall == \E t \in Tasks : cont[t] # NoCont

TimerLinked(x) ==
  \/ OnList(tTimerHardList, TimerNode(x))
  \/ OnList(tTimerSoftList, TimerNode(x))

(* the node is on one list only, and the walk of that list does not come
   back to it *)
TimerLinkedAtMostOnce(x) ==
  /\ ~(OnList(tTimerHardList, TimerNode(x)) /\ OnList(tTimerSoftList, TimerNode(x)))
  /\ \A l \in {tTimerHardList, tTimerSoftList} :
       LET q == ListSeq(l)
       IN (Len(q) > 0 /\ OnList(l, TimerNode(x)))
            => nextNode[q[Len(q)]] # TimerNode(x)

(* C20: in every state in which no scan and no timer call is under way,
   every initialised timer is linked in tTimerHardList or tTimerSoftList
   exactly when its state is tTimerStarted or tTimerRunning, and it is
   linked at most once. *)
C20_StateAgreesWithList ==
  (fault = "none" /\ ~MidTimerCall) =>
    \A x \in Timers :
      timer[x].state # TimerNone =>
        /\ TimerLinked(x) <=> timer[x].state \in {tTimerStarted, tTimerRunning}
        /\ TimerLinkedAtMostOnce(x)

(* the priority tBitMapGetFirstSet returns names a ready list of taskTable
   that holds a task *)
SelectionDefined ==
  /\ taskPrioBitMap # {}
  /\ Min(taskPrioBitMap) \in Prios
  /\ nodeCount[RdyList(Min(taskPrioBitMap))] > 0
  /\ Contents(RdyList(Min(taskPrioBitMap))) # {}

IdleStaysReady ==
  /\ (TINYOS_PRIO_COUNT - 1) \in taskPrioBitMap
  /\ OnList(RdyList(TINYOS_PRIO_COUNT - 1), LinkNode(IdleTask))

(* C21: in every state from which tTaskSched can select a task, that is
   with schedLockCounter = 0, taskPrioBitMap has a bit set and the ready
   list of its first set bit is non-empty; and in every state, from main's
   tTaskInit of the idle task on, also under the scheduler lock, bit
   TINYOS_PRIO_COUNT - 1 is set and the idle task is on its ready list. *)
C21_SelectionNeverEmpty ==
  fault = "none" =>
    /\ schedLockCounter = 0 => SelectionDefined
    /\ IdleStaysReady

TaskLists == ReadyLists \cup WaitLists \cup {tTaskDelayedList}

(* after the step the task's nodes are on none of the kernel's task lists *)
OffTaskListsNext(t) ==
  /\ \A l \in ReadyLists \cup WaitLists : LinkNode(t) \notin ContentsIn(nextNode', l)
  /\ DelayNode(t) \notin ContentsIn(nextNode', tTaskDelayedList)

OffReadyLists(t) == \A l \in ReadyLists : ~OnList(l, LinkNode(t))

(* C22: a completed tTaskForceDelete(t) leaves t on no ready list, not on
   tTaskDelayedList and on no event wait list, and leaves every one of
   those lists, when it was a proper ring with a matching count before the
   call, a proper ring with a matching count; and a tick or a semaphore
   notify taken while a deleted task is on no ready list and not running
   leaves it on no ready list and not running. *)
C22_ForceDeleteRemovesTask ==
  [][\A t \in AppTasks :
       /\ (AppForceDelete(t) /\ fault' = "none") =>
            /\ OffTaskListsNext(t)
            /\ \A l \in TaskLists :
                 (Initialised(l) /\ WellFormed(l))
                   => WellFormedIn(nextNode', preNode', nodeCount', l)
       /\ ( /\ life[t] = "deleted" /\ OffReadyLists(t) /\ curTask # t
            /\ Tick \/ AppSemNotify
            /\ fault' = "none" ) =>
            /\ \A l \in ReadyLists : LinkNode(t) \notin ContentsIn(nextNode', l)
            /\ curTask' # t ]_vars

(* C23: whichever way the statements of two tasks' tTimerStart calls on
   the same timer interleave, a caller that reaches the insertion finds the
   timer off its list, and the insertion leaves that list a proper ring
   whose count is the number of timers it links. *)
C23_ConcurrentStartInsertsOnce ==
  [][\A x \in Timers :
       (RaceStartLink(x) /\ fault' = "none" /\ cont'[curTask] = NoCont) =>
         /\ ~TimerOnList(x)
         /\ WellFormedIn(nextNode', preNode', nodeCount', TimerListOf(x))]_vars

====
